---------------------------- MODULE Spec2Model ----------------------------
(***************************************************************************)
(* A model of "Ask the Docs" (src/app.py, src/rag_methods.py): the         *)
(* document loader, the answer composer, the per-session index directory,  *)
(* the age-based sweep and the chat handler.                               *)
(*                                                                         *)
(* Strings are sequences of one-character strings where the code looks at  *)
(* characters (paths, text-area lines) and sequences of tokens where it    *)
(* only concatenates them (message contents, page contents).               *)
(***************************************************************************)
EXTENDS Integers, Sequences, FiniteSets, TLC

VARIABLES
    \* ---- load_documents called on its own (SpecLoad)
    file_paths,       \* the file_paths argument
    links,            \* the links argument
    broken,           \* the inputs whose loader.load() raises
    load_result,      \* whether the call was made, and what it gave
    \* ---- answer_with_rag called on its own (SpecRag)
    relevant_docs,    \* what retriever.get_relevant_documents(query) returns
    llm_kind,         \* the class of the llm argument
    rag_result,       \* whether the call was made, and what it gave
    \* ---- the application (SpecChat, SpecIndex, SpecSessions)
    clock,            \* datetime.datetime.now(), in hours
    dirs,             \* BASE_TEMP_DIR: one entry per session id
    nextId,           \* the next uuid4 not yet handed out
    session_id,       \* st.session_state.session_id per browser tab (0: absent)
    retriever,        \* st.session_state.retriever per tab
    use_rag,          \* st.session_state.use_rag per tab
    messages,         \* st.session_state.messages per tab
    lastOp,           \* history: the script run that made the last step
    lastInputs,       \* history: inputs of a tab's last successful Process Documents,
                      \*   and whether it replaced an index built from other inputs
    lastInteraction   \* history: clock of a tab's last script run

loadVars == <<file_paths, links, broken, load_result>>
ragVars == <<relevant_docs, llm_kind, rag_result>>
appVars == <<clock, dirs, nextId, session_id, retriever, use_rag, messages,
             lastOp, lastInputs, lastInteraction>>
vars == <<loadVars, ragVars, appVars>>

(***************************************************************************)
(* Bounds of the model.                                                    *)
(***************************************************************************)
MaxFiles == 2          \* longest file_paths list given to load_documents
MaxLinks == 1          \* longest links list given to load_documents
MaxBroken == 1         \* how many inputs may fail to load
MaxRetrieved == 3      \* longest retrieval result given to answer_with_rag
MaxVaried == 3         \* SpecChat: failures and settings vary while fewer messages are stored
MaxSessionMsgs == 2    \* SpecIndex, SpecSessions: questions stop at this many messages

(***************************************************************************)
(* Generic helpers.                                                        *)
(***************************************************************************)
SeqsUpTo(S, n) == UNION {[1..k -> S] : k \in 0..n}

Range(f) == {f[i] : i \in DOMAIN f}

RECURSIVE Flatten(_)
Flatten(ss) == IF ss = <<>> THEN <<>> ELSE Head(ss) \o Flatten(Tail(ss))

(***************************************************************************)
(* Python string operations the code uses.                                 *)
(***************************************************************************)
\* str.rfind(c), 1-based; 0 when c does not occur
RFind(p, c) ==
    IF \E i \in 1..Len(p) : p[i] = c
    THEN CHOOSE i \in 1..Len(p) : p[i] = c /\ \A j \in (i+1)..Len(p) : p[j] # c
    ELSE 0

\* os.path.splitext(path)[1]: from the last dot of the last path component,
\* unless that component has nothing but dots before it
SplitExt(p) ==
    LET sepIndex == RFind(p, "/")
        dotIndex == RFind(p, ".")
    IN  IF dotIndex > sepIndex
           /\ \E k \in (sepIndex + 1)..(dotIndex - 1) : p[k] # "."
        THEN SubSeq(p, dotIndex, Len(p))
        ELSE <<>>

LowerChar(c) ==
    CASE c = "P" -> "p" [] c = "D" -> "d" [] c = "F" -> "f"
      [] c = "T" -> "t" [] c = "X" -> "x" [] c = "M" -> "m"
      [] OTHER -> c

\* str.lower()
Lower(s) == [i \in 1..Len(s) |-> LowerChar(s[i])]

DotPdf == <<".", "p", "d", "f">>
DotTxt == <<".", "t", "x", "t">>

\* the extension as load_documents compares it without .lower(): case-sensitive
ExtOfNoLower(path) == SplitExt(path)

\* src/rag_methods.py:32 ext = os.path.splitext(path)[1].lower()
ExtOf(path) == Lower(SplitExt(path))

(***************************************************************************)
(* The file system and the web, as the loaders see them.                   *)
(***************************************************************************)
UserDir == <<"u">>
NameA == <<"a", ".", "p", "d", "f">>
NameB == <<"b", ".", "T", "X", "T">>

\* os.path.join(user_dir, name)
JoinPath(dir, name) == dir \o <<"/">> \o name

PathA == JoinPath(UserDir, NameA)
PathB == JoinPath(UserDir, NameB)
PathC == <<"u", "/", "c", ".", "m", "d">>
PathD == <<"v", ".", "d", "/", "n">>
PathE == <<"u", "/", ".", "t", "x", "t">>
Link1 == <<"h", "1">>
Link2 == <<"h", "2">>

AllPaths == {PathA, PathB, PathC, PathD, PathE}
AllLinks == {Link1, Link2}

\* the text of each page of a PDF (one Document per page), of a text file
\* (one Document) and of a web page (one Document)
PagesOf(src) ==
    CASE src = PathA -> << <<"a1">>, <<"a2">> >>
      [] src = PathB -> << <<"b1", "b2">> >>
      [] src = PathC -> << <<"c1">> >>
      [] src = PathD -> << <<"d1">> >>
      [] src = PathE -> << <<"e1">> >>
      [] src = Link1 -> << <<"w1">> >>
      [] src = Link2 -> << <<>> >>
      [] OTHER -> << <<"?">> >>

Document(src, text) == [page_content |-> text, source |-> src]

\* loader.load() of PyPDFLoader, TextLoader, WebBaseLoader: the Documents of the
\* source, or an exception when the source cannot be fetched or parsed
LoaderLoad(src, bad) ==
    IF src \in bad
    THEN [raised |-> TRUE, docs |-> <<>>]
    ELSE [raised |-> FALSE,
          docs |-> [i \in 1..Len(PagesOf(src)) |-> Document(src, PagesOf(src)[i])]]

Raised == [raised |-> TRUE, docs |-> <<>>]

(***************************************************************************)
(* load_documents (src/rag_methods.py:26-43).                              *)
(***************************************************************************)
\* the second loop: for link in links
RECURSIVE LoadLinks(_, _, _, _)
LoadLinks(ls, i, docs, bad) ==
    IF i > Len(ls) THEN [raised |-> FALSE, docs |-> docs]
    ELSE LET got == LoaderLoad(ls[i], bad)
         IN  IF got.raised THEN Raised
             ELSE LoadLinks(ls, i + 1, docs \o got.docs, bad)

\* the first loop: for path in file_paths
RECURSIVE LoadFiles(_, _, _, _)
LoadFiles(paths, i, docs, bad) ==
    IF i > Len(paths) THEN [raised |-> FALSE, docs |-> docs]
    ELSE LET ext == ExtOf(paths[i])
         IN  IF ext = DotPdf \/ ext = DotTxt
             THEN LET got == LoaderLoad(paths[i], bad)
                  IN  IF got.raised THEN Raised
                      ELSE LoadFiles(paths, i + 1, docs \o got.docs, bad)
             ELSE LoadFiles(paths, i + 1, docs, bad)

load_documents(paths, ls, bad) ==
    LET files == LoadFiles(paths, 1, <<>>, bad)
    IN  IF files.raised THEN Raised
        ELSE LoadLinks(ls, 1, files.docs, bad)

(***************************************************************************)
(* answer_with_rag (src/rag_methods.py:62-81).                             *)
(***************************************************************************)
BlankLine == <<"\n\n">>

\* sep.join(texts) with the separator after every text, the last one too
RECURSIVE JoinTrailing(_, _)
JoinTrailing(sep, texts) ==
    IF texts = <<>> THEN <<>>
    ELSE Head(texts) \o sep \o JoinTrailing(sep, Tail(texts))

\* sep.join(texts)
RECURSIVE Join(_, _)
Join(sep, texts) ==
    IF texts = <<>> THEN <<>>
    ELSE IF Len(texts) = 1 THEN Head(texts)
    ELSE Head(texts) \o sep \o Join(sep, Tail(texts))

PageContents(docs) == [i \in 1..Len(docs) |-> docs[i].page_content]

QaAnswer == <<"qa">>

\* retrieved: what retriever.get_relevant_documents(query) gave, or its exception
answer_with_rag(retrieved, llm) ==
    IF retrieved.raised
    THEN [raised |-> TRUE, value |-> <<>>, llm_invoked |-> FALSE]
    ELSE LET context == Join(BlankLine, PageContents(retrieved.docs))
         IN  IF llm = "ChatGoogleGenerativeAI"
             THEN [raised |-> FALSE, value |-> context, llm_invoked |-> FALSE]
             ELSE [raised |-> FALSE, value |-> QaAnswer, llm_invoked |-> TRUE]

(***************************************************************************)
(* The session store: BASE_TEMP_DIR and its per-session directories.       *)
(***************************************************************************)
Tabs == {"t1", "t2"}

MaxIds == 2            \* how many uuid4 values the model hands out
Ids == 1..MaxIds

MAX_MESSAGES == 100
MaxAgeHours == 24      \* cleanup_old_sessions(max_age_hours=24)
TickHours == 24        \* how far one step of the clock goes
MaxClock == 48         \* the clock stops here

NoIndex == [present |-> FALSE, docs |-> <<>>]
NoRetriever == [present |-> FALSE, docs |-> <<>>]
NoDir == [exists |-> FALSE, mtime |-> 0, files |-> {}, index |-> NoIndex]

\* os.makedirs(user_dir) of a directory that is not there yet
FreshDir(now) == [exists |-> TRUE, mtime |-> now, files |-> {}, index |-> NoIndex]

\* the age test with >= for >
IsOldInclusive(mtime, now) == (now - mtime) * 3600 >= MaxAgeHours * 3600

\* src/app.py:34
IsOld(mtime, now) == (now - mtime) * 3600 > MaxAgeHours * 3600

cleanup_old_sessions(ds, now) ==
    [id \in Ids |-> IF ds[id].exists /\ IsOld(ds[id].mtime, now) THEN NoDir ELSE ds[id]]

cleanup_session(ds, sid) ==
    IF ds[sid].exists THEN [ds EXCEPT ![sid] = NoDir] ELSE ds

\* open(file_path, "wb") for every uploaded file: a new name is a new entry of
\* user_dir (its mtime moves), an old name is rewritten in place
WriteUploads(d, uploaded, now) ==
    [d EXCEPT !.files = d.files \cup Range(uploaded),
              !.mtime = IF Range(uploaded) \subseteq d.files THEN d.mtime ELSE now]

(***************************************************************************)
(* The index (src/rag_methods.py:45-60, 83-116).                           *)
(***************************************************************************)
\* the index is built, and the exception swallowed, when embedding fails
create_faiss_index_partial(documents, embedFails) ==
    [raised |-> FALSE,
     index |-> [present |-> TRUE,
                docs |-> IF embedFails THEN SubSeq(documents, 1, Len(documents) - 1)
                         ELSE documents]]

create_faiss_index(documents, embedFails) ==
    IF embedFails THEN [raised |-> TRUE, index |-> NoIndex]
    ELSE [raised |-> FALSE, index |-> [present |-> TRUE, docs |-> documents]]

get_retriever(faiss_index) == [present |-> TRUE, docs |-> faiss_index.docs]

\* save_local that adds to the index already in the directory
save_faiss_index_merge(d, faiss_index, now) ==
    [exists |-> TRUE,
     mtime |-> IF d.exists /\ d.index.present THEN d.mtime ELSE now,
     files |-> IF d.exists THEN d.files ELSE {},
     index |-> [present |-> TRUE, docs |-> d.index.docs \o faiss_index.docs]]

\* os.makedirs(index_dir, exist_ok=True) makes user_dir and faiss_index when they
\* are missing (user_dir's mtime moves); save_local rewrites the files inside
save_faiss_index(d, faiss_index, now) ==
    [exists |-> TRUE,
     mtime |-> IF d.exists /\ d.index.present THEN d.mtime ELSE now,
     files |-> IF d.exists THEN d.files ELSE {},
     index |-> faiss_index]

load_faiss_index(d) ==
    IF ~(d.exists /\ d.index.present) THEN NoIndex ELSE d.index

(***************************************************************************)
(* The top of the script, run on every interaction (src/app.py:120-163).   *)
(***************************************************************************)
Greeting == [role |-> "assistant", content |-> <<"Hello!">>]

\* sid = 0: "session_id" is not in st.session_state (nor any other key)
ScriptTop(sid, ds, nid, msgs, rag, retr, now) ==
    LET isNew == sid = 0
        sid1 == IF isNew THEN nid ELSE sid
        ds1 == IF isNew THEN [ds EXCEPT ![nid] = FreshDir(now)] ELSE ds
        ds2 == cleanup_old_sessions(ds1, now)
        loaded == load_faiss_index(ds2[sid1])
    IN  [sid |-> sid1,
         dirs |-> ds2,
         nextId |-> IF isNew THEN nid + 1 ELSE nid,
         messages |-> IF isNew THEN <<Greeting>> ELSE msgs,
         use_rag |-> IF isNew THEN FALSE ELSE rag,
         retriever |-> IF loaded.present THEN get_retriever(loaded)
                       ELSE IF isNew THEN NoRetriever ELSE retr]

Top(s) ==
    ScriptTop(session_id[s], dirs, nextId, messages[s], use_rag[s], retriever[s], clock)

Live(s) == session_id[s] # 0

(***************************************************************************)
(* The "Process Documents" handler (src/app.py:228-251).                   *)
(***************************************************************************)
RECURSIVE LStrip(_)
LStrip(l) == IF l # <<>> /\ Head(l) = " " THEN LStrip(Tail(l)) ELSE l

RECURSIVE RStrip(_)
RStrip(l) ==
    IF l # <<>> /\ l[Len(l)] = " " THEN RStrip(SubSeq(l, 1, Len(l) - 1)) ELSE l

\* str.strip()
Strip(l) == RStrip(LStrip(l))

NonEmpty(l) == l # <<>>

\* [link.strip() for link in web_links.split("\n") if link.strip()]
ParseLinks(lines) ==
    SelectSeq([i \in 1..Len(lines) |-> Strip(lines[i])], NonEmpty)

FilePaths(uploaded) == [i \in 1..Len(uploaded) |-> JoinPath(UserDir, uploaded[i])]

\* t: the session as the top of the script left it
ProcessHandler(t, uploaded, lines, bad, embedFails, now) ==
    LET d == t.dirs[t.sid]
        lks == ParseLinks(lines)
        paths == FilePaths(uploaded)
    IN  IF uploaded # <<>> /\ ~d.exists
        THEN \* open() of a file in a directory that is gone
             [outcome |-> "write_error", dirs |-> t.dirs, retriever |-> t.retriever]
        ELSE LET d1 == IF uploaded = <<>> THEN d ELSE WriteUploads(d, paths, now)
                 ds1 == [t.dirs EXCEPT ![t.sid] = d1]
             IN  IF paths = <<>> /\ lks = <<>>
                 THEN [outcome |-> "no_input", dirs |-> ds1, retriever |-> t.retriever]
                 ELSE LET loaded == load_documents(paths, lks, bad)
                          built == create_faiss_index(loaded.docs, embedFails)
                      IN  IF loaded.raised
                          THEN [outcome |-> "load_error", dirs |-> ds1,
                                retriever |-> t.retriever]
                          ELSE IF built.raised
                          THEN [outcome |-> "embed_error", dirs |-> ds1,
                                retriever |-> t.retriever]
                          ELSE [outcome |-> "success",
                                dirs |-> [ds1 EXCEPT
                                            ![t.sid] = save_faiss_index(d1, built.index, now)],
                                retriever |-> get_retriever(built.index)]

(***************************************************************************)
(* The chat input handler (src/app.py:297-358) and check_message_limit.    *)
(***************************************************************************)
TopK == 4              \* as_retriever(): the number of documents retrieved

Reverse(q) == [i \in 1..Len(q) |-> q[Len(q) + 1 - i]]

Min(a, b) == IF a < b THEN a ELSE b
Max(a, b) == IF a > b THEN a ELSE b

\* retriever.get_relevant_documents(query): the TopK most similar documents, the
\* ranking being the embedding service's
Retrieve(retr, order, fails) ==
    IF fails THEN [raised |-> TRUE, docs |-> <<>>]
    ELSE LET ranked == IF order = "desc" THEN Reverse(retr.docs) ELSE retr.docs
         IN  [raised |-> FALSE, docs |-> SubSeq(ranked, 1, Min(TopK, Len(ranked)))]

UserMsg(prompt) == [role |-> "user", content |-> prompt]
AssistantMsg(text) == [role |-> "assistant", content |-> text]

HumanMessage(text) == [type |-> "human", content |-> text]
AIMessage(text) == [type |-> "ai", content |-> text]

\* msgs[-3:]
LastThree(msgs) == SubSeq(msgs, Max(1, Len(msgs) - 2), Len(msgs))

\* msgs[-2:]
LastTwo(msgs) == SubSeq(msgs, Max(1, Len(msgs) - 1), Len(msgs))

\* src/app.py:335, 345
ToLangchain(recent) ==
    [i \in 1..Len(recent) |->
        IF recent[i].role = "user" THEN HumanMessage(recent[i].content)
        ELSE AIMessage(recent[i].content)]

RagHeader == "Based on the retrieved information:"
RagFooter == "Answer the following question:"

\* src/app.py:316-322
RagPrompt(rag_response, prompt) == <<RagHeader>> \o rag_response \o <<RagFooter>> \o prompt

\* the chunks the model streams for an input
Reply(input) ==
    IF Len(input) = 1 /\ input[1].content # <<>> /\ input[1].content[1] = RagHeader
    THEN <<"r1", "r2">>
    ELSE <<"f1", "f2">>

\* llm_stream.stream(input): failAt < 0 runs to completion, otherwise the stream
\* raises after failAt chunks
Stream(input, failAt) ==
    IF failAt < 0 THEN [raised |-> FALSE, chunks |-> Reply(input)]
    ELSE [raised |-> TRUE, chunks |-> SubSeq(Reply(input), 1, Min(failAt, Len(Reply(input))))]

check_message_limit(msgs) ==
    IF Len(msgs) >= MAX_MESSAGES
    THEN <<IF msgs # <<>> THEN msgs[1] ELSE Greeting>>
    ELSE msgs

\* src/app.py:354-358
Finish(msgs1, full_response, path, calls, partial) ==
    LET msgs2 == Append(msgs1, AssistantMsg(full_response))
    IN  [messages |-> check_message_limit(msgs2), outcome |-> "answered", path |-> path,
         calls |-> calls, partial |-> partial, stored |-> full_response,
         cleared |-> Len(msgs2) >= MAX_MESSAGES]

\* a stream outside any try: the exception ends the script run
Abort(msgs1, path, calls, partial) ==
    [messages |-> msgs1, outcome |-> "exception", path |-> path,
     calls |-> calls, partial |-> partial, stored |-> <<>>, cleared |-> FALSE]

\* src/app.py:334-342 and 344-352: full_response is what the try block left
PlainAnswer(msgs1, full_response, path, calls, partial, failAt) ==
    LET input == ToLangchain(LastTwo(msgs1))
        st == Stream(input, failAt)
    IN  IF st.raised
        THEN Abort(msgs1, path, Append(calls, input),
                   IF st.chunks # <<>> THEN full_response \o st.chunks ELSE partial)
        ELSE Finish(msgs1, full_response \o st.chunks, path, Append(calls, input), partial)

\* t: the session as the top of the script left it
ChatHandler(t, prompt, order, retrievalFails, ragFailAt, fallbackFailAt) ==
    LET msgs1 == Append(t.messages, UserMsg(prompt))
    IN  IF t.use_rag /\ t.retriever.present
        THEN LET rag == answer_with_rag(Retrieve(t.retriever, order, retrievalFails),
                                        "ChatGoogleGenerativeAI")
                 input == <<HumanMessage(RagPrompt(rag.value, prompt))>>
                 st == Stream(input, ragFailAt)
             IN  IF rag.raised
                 THEN PlainAnswer(msgs1, <<>>, "rag_fallback", <<>>, <<>>, fallbackFailAt)
                 ELSE IF st.raised
                 THEN PlainAnswer(msgs1, st.chunks, "rag_fallback", <<input>>, st.chunks,
                                  fallbackFailAt)
                 ELSE Finish(msgs1, st.chunks, "rag", <<input>>, <<>>)
        ELSE PlainAnswer(msgs1, <<>>, "plain", <<>>, <<>>, fallbackFailAt)

(***************************************************************************)
(* Script runs.  Every interaction runs the script from its top; the       *)
(* widget that caused the run decides which handler runs after it.         *)
(***************************************************************************)
NoInputs == [present |-> FALSE, paths |-> <<>>, links |-> <<>>, replaced |-> FALSE]

Op(s, kind, outcome) ==
    [tab |-> s, kind |-> kind, outcome |-> outcome, path |-> "none", calls |-> <<>>,
     partial |-> <<>>, stored |-> <<>>, prompt |-> <<>>, cleared |-> FALSE,
     bad |-> {}, embedFails |-> FALSE]

Commit(s, sid, ds, nid, msgs, rag, retr, op, inputs) ==
    /\ session_id' = [session_id EXCEPT ![s] = sid]
    /\ dirs' = ds
    /\ nextId' = nid
    /\ messages' = [messages EXCEPT ![s] = msgs]
    /\ use_rag' = [use_rag EXCEPT ![s] = rag]
    /\ retriever' = [retriever EXCEPT ![s] = retr]
    /\ lastOp' = op
    /\ lastInputs' = [lastInputs EXCEPT ![s] = inputs]
    /\ lastInteraction' = [lastInteraction EXCEPT ![s] = clock]
    /\ clock' = clock
    /\ UNCHANGED <<loadVars, ragVars>>

\* a page load, or a run caused by a widget with no handler
PageRun(s) ==
    /\ Live(s) \/ nextId <= MaxIds
    /\ LET t == Top(s)
       IN  Commit(s, t.sid, t.dirs, t.nextId, t.messages, t.use_rag, t.retriever,
                  Op(s, "page", "ok"), IF Live(s) THEN lastInputs[s] ELSE NoInputs)

\* src/app.py:206
ToggleRag(s) ==
    /\ Live(s)
    /\ LET t == Top(s)
       IN  Commit(s, t.sid, t.dirs, t.nextId, t.messages, ~t.use_rag, t.retriever,
                  Op(s, "toggle", "ok"), lastInputs[s])

\* src/app.py:228-251; bad and embedFails are the environment's
ProcessDocuments(s, uploaded, lines, bad, embedFails) ==
    /\ Live(s)
    /\ use_rag[s]
    /\ LET t == Top(s)
           r == ProcessHandler(t, uploaded, lines, bad, embedFails, clock)
       IN  Commit(s, t.sid, r.dirs, t.nextId, t.messages, t.use_rag, r.retriever,
                  [Op(s, "process", r.outcome) EXCEPT !.bad = bad, !.embedFails = embedFails],
                  IF r.outcome = "success"
                  THEN [present |-> TRUE, paths |-> FilePaths(uploaded),
                        links |-> ParseLinks(lines),
                        replaced |-> /\ lastInputs[s].present
                                     /\ <<lastInputs[s].paths, lastInputs[s].links>>
                                           # <<FilePaths(uploaded), ParseLinks(lines)>>]
                  ELSE lastInputs[s])

\* src/app.py:265-268: cleanup_session, session_state.clear(), st.rerun()
DeleteSession(s) ==
    /\ Live(s)
    /\ nextId <= MaxIds
    /\ LET t == Top(s)
           ds == cleanup_session(t.dirs, t.sid)
           u == ScriptTop(0, ds, t.nextId, <<>>, FALSE, NoRetriever, clock)
       IN  Commit(s, u.sid, u.dirs, u.nextId, u.messages, u.use_rag, u.retriever,
                  Op(s, "delete", "ok"), NoInputs)

\* src/app.py:271-277: the on_click callback runs, then the script
ClearChat(s) ==
    /\ Live(s)
    /\ LET t == ScriptTop(session_id[s], dirs, nextId, <<>>, use_rag[s], retriever[s], clock)
       IN  Commit(s, t.sid, t.dirs, t.nextId, t.messages, t.use_rag, t.retriever,
                  Op(s, "clear", "ok"), lastInputs[s])

\* src/app.py:297-358
Question(s, prompt, order, retrievalFails, ragFailAt, fallbackFailAt) ==
    /\ Live(s)
    /\ LET t == Top(s)
           r == ChatHandler(t, prompt, order, retrievalFails, ragFailAt, fallbackFailAt)
       IN  Commit(s, t.sid, t.dirs, t.nextId, r.messages, t.use_rag, t.retriever,
                  [Op(s, "question", r.outcome) EXCEPT
                      !.path = r.path, !.calls = r.calls, !.partial = r.partial,
                      !.stored = r.stored, !.prompt = prompt, !.cleared = r.cleared],
                  lastInputs[s])

Tick ==
    /\ clock + TickHours <= MaxClock
    /\ clock' = clock + TickHours
    /\ lastOp' = Op("clock", "tick", "ok")
    /\ UNCHANGED <<dirs, nextId, session_id, retriever, use_rag, messages,
                   lastInputs, lastInteraction, loadVars, ragVars>>

(***************************************************************************)
(* Initial states.                                                         *)
(***************************************************************************)
Pending == [done |-> FALSE, raised |-> FALSE, docs |-> <<>>]
RagPending == [done |-> FALSE, raised |-> FALSE, value |-> <<>>, llm_invoked |-> FALSE]

LoadIdle ==
    /\ file_paths = <<>>
    /\ links = <<>>
    /\ broken = {}
    /\ load_result = Pending

RagIdle ==
    /\ relevant_docs = [raised |-> FALSE, docs |-> <<>>]
    /\ llm_kind = "None"
    /\ rag_result = RagPending

AppInit ==
    /\ clock = 0
    /\ dirs = [id \in Ids |-> NoDir]
    /\ nextId = 1
    /\ session_id = [s \in Tabs |-> 0]
    /\ retriever = [s \in Tabs |-> NoRetriever]
    /\ use_rag = [s \in Tabs |-> FALSE]
    /\ messages = [s \in Tabs |-> <<>>]
    /\ lastOp = Op("none", "none", "ok")
    /\ lastInputs = [s \in Tabs |-> NoInputs]
    /\ lastInteraction = [s \in Tabs |-> 0]

(***************************************************************************)
(* SpecLoad: load_documents on every bounded input.                        *)
(***************************************************************************)
AllSources == AllPaths \cup AllLinks

InitLoad ==
    /\ file_paths \in SeqsUpTo(AllPaths, MaxFiles)
    /\ links \in SeqsUpTo(AllLinks, MaxLinks)
    /\ broken \in {b \in SUBSET AllSources : Cardinality(b) <= MaxBroken}
    /\ load_result = Pending
    /\ RagIdle
    /\ AppInit

CallLoadDocuments ==
    /\ ~load_result.done
    /\ LET r == load_documents(file_paths, links, broken)
       IN  load_result' = [done |-> TRUE, raised |-> r.raised, docs |-> r.docs]
    /\ UNCHANGED <<file_paths, links, broken, ragVars, appVars>>

NextLoad == CallLoadDocuments

SpecLoad == InitLoad /\ [][NextLoad]_vars

(***************************************************************************)
(* SpecRag: answer_with_rag on every bounded retrieval result.             *)
(***************************************************************************)
DocPool == {Document(Link1, <<"w1">>), Document(Link2, <<>>), Document(PathB, <<"b1", "b2">>)}

LlmKinds == {"None", "ChatGoogleGenerativeAI", "OpenAI"}

InitRag ==
    /\ relevant_docs \in
          {[raised |-> FALSE, docs |-> d] : d \in SeqsUpTo(DocPool, MaxRetrieved)}
          \cup {[raised |-> TRUE, docs |-> <<>>]}
    /\ llm_kind \in LlmKinds
    /\ rag_result = RagPending
    /\ LoadIdle
    /\ AppInit

\* llm is None: llm = OpenAI(temperature=0)
CallAnswerWithRag ==
    /\ ~rag_result.done
    /\ LET llm == IF llm_kind = "None" THEN "OpenAI" ELSE llm_kind
           r == answer_with_rag(relevant_docs, llm)
       IN  rag_result' = [done |-> TRUE, raised |-> r.raised, value |-> r.value,
                          llm_invoked |-> r.llm_invoked]
    /\ UNCHANGED <<relevant_docs, llm_kind, loadVars, appVars>>

NextRag == CallAnswerWithRag

SpecRag == InitRag /\ [][NextRag]_vars

(***************************************************************************)
(* Inputs of the application's specifications.                             *)
(***************************************************************************)
Prompt == <<"q1">>
Orders == {"asc", "desc"}
FailPoints == {-1, 0, 1}

\* what the file uploader (type=["pdf", "txt"]) can hold
Uploads == {<<>>, <<NameA>>, <<NameA, NameB>>}

\* the text area, split at "\n"
TextAreas == { << <<>> >>, <<<<" ", "h", "1", " ">>, <<>>, Link2>> }

InputSources(uploaded, lines) == Range(FilePaths(uploaded)) \cup Range(ParseLinks(lines))

(***************************************************************************)
(* SpecChat: one browser tab and its conversation, up to the message       *)
(* limit.  Settings, documents and stream failures vary while fewer than   *)
(* MaxVaried messages are stored; past that every stream completes.        *)
(***************************************************************************)
ChatTab == "t1"

InWindow == Len(messages[ChatTab]) < MaxVaried

ChatPageRun == PageRun(ChatTab)

ChatToggle == InWindow /\ ToggleRag(ChatTab)

ChatProcess ==
    /\ InWindow
    /\ \E embedFails \in BOOLEAN :
          ProcessDocuments(ChatTab, <<NameA>>, << <<>> >>, {}, embedFails)

ChatQuestion ==
    \/ /\ InWindow
       /\ \E order \in Orders, retrievalFails \in BOOLEAN,
             ragFailAt \in FailPoints, fallbackFailAt \in FailPoints :
             Question(ChatTab, Prompt, order, retrievalFails, ragFailAt, fallbackFailAt)
    \/ /\ ~InWindow
       /\ Question(ChatTab, Prompt, "asc", FALSE, -1, -1)

ChatClear == ClearChat(ChatTab)

NextChat == ChatPageRun \/ ChatToggle \/ ChatProcess \/ ChatQuestion \/ ChatClear

InitChat == LoadIdle /\ RagIdle /\ AppInit

SpecChat == InitChat /\ [][NextChat]_vars

(***************************************************************************)
(* SpecIndex: one browser tab, its directory and its index, over time.     *)
(***************************************************************************)
IndexPageRun == PageRun(ChatTab)

IndexToggle == ToggleRag(ChatTab)

IndexProcess ==
    \E uploaded \in Uploads, lines \in TextAreas :
       \/ \E embedFails \in BOOLEAN :
             ProcessDocuments(ChatTab, uploaded, lines, {}, embedFails)
       \/ \E src \in InputSources(uploaded, lines) :
             ProcessDocuments(ChatTab, uploaded, lines, {src}, FALSE)

IndexQuestion ==
    /\ Len(messages[ChatTab]) < MaxSessionMsgs
    /\ Question(ChatTab, Prompt, "asc", FALSE, -1, -1)

IndexDelete == DeleteSession(ChatTab)

NextIndex ==
    IndexPageRun \/ IndexToggle \/ IndexProcess \/ IndexQuestion \/ IndexDelete \/ Tick

InitIndex == LoadIdle /\ RagIdle /\ AppInit

SpecIndex == InitIndex /\ [][NextIndex]_vars

(***************************************************************************)
(* SpecSessions: two browser tabs, whose script runs interleave.           *)
(***************************************************************************)
SessionPageRun == \E s \in Tabs : PageRun(s)

SessionToggle == \E s \in Tabs : ToggleRag(s)

SessionProcess ==
    \E s \in Tabs :
       ProcessDocuments(s, <<>>, IF s = ChatTab THEN <<Link1>> ELSE <<Link2>>, {}, FALSE)

SessionQuestion ==
    \E s \in Tabs :
       /\ Len(messages[s]) < MaxSessionMsgs
       /\ Question(s, Prompt, "asc", FALSE, -1, -1)

SessionDelete == \E s \in Tabs : DeleteSession(s)

NextSessions ==
    \/ SessionPageRun \/ SessionToggle \/ SessionProcess
    \/ SessionQuestion \/ SessionDelete \/ Tick

InitSessions == LoadIdle /\ RagIdle /\ AppInit

SpecSessions == InitSessions /\ [][NextSessions]_vars

(***************************************************************************)
(* What the claims speak of, stated apart from the code's own computation. *)
(***************************************************************************)
\* .pdf or .txt in any mix of upper and lower case
SupportedExt(ext) ==
    /\ Len(ext) = 4
    /\ ext[1] = "."
    /\ \/ ext[2] \in {"p", "P"} /\ ext[3] \in {"d", "D"} /\ ext[4] \in {"f", "F"}
       \/ ext[2] \in {"t", "T"} /\ ext[3] \in {"x", "X"} /\ ext[4] \in {"t", "T"}

HasSupportedExt(path) == SupportedExt(SplitExt(path))

DocsOfSource(src) == [i \in 1..Len(PagesOf(src)) |-> Document(src, PagesOf(src)[i])]

\* the documents of the sources, source by source, in order
ExpectedDocs(srcs) == Flatten([i \in 1..Len(srcs) |-> DocsOfSource(srcs[i])])

NotBroken(src) == src \notin broken

IsPrefix(a, b) == Len(a) <= Len(b) /\ SubSeq(b, 1, Len(a)) = a

(***************************************************************************)
(* Claims about load_documents (SpecLoad).                                 *)
(***************************************************************************)
\* C1: load_documents leaves out every path whose extension is neither .pdf nor
\* .txt (in any case) and does not raise for it: the call gives what it gives
\* with those paths removed from the input, and when no supported file and no
\* link fails to load, that is the documents of the supported files in input
\* order followed by the documents of the links in input order.
C1_UnsupportedSkipped ==
    load_result.done =>
       LET kept == SelectSeq(file_paths, HasSupportedExt)
           without == load_documents(kept, links, broken)
       IN  /\ load_result.raised = without.raised
           /\ load_result.docs = without.docs
           /\ (Range(kept) \cup Range(links)) \cap broken = {} =>
                 /\ ~load_result.raised
                 /\ load_result.docs = ExpectedDocs(kept \o links)

\* an unsupported file that could not even be read sits before an upper-case
\* .TXT file, and the call returned the documents of the latter
C1_Witness ==
    /\ load_result.done
    /\ ~load_result.raised
    /\ file_paths = <<PathC, PathB>>
    /\ broken = {PathC}
    /\ load_result.docs = DocsOfSource(PathB)

\* C2: a load failure of one input does not abort the batch: the call returns,
\* with the documents of every input that did load, in input order.
C2_FailureIsolated ==
    load_result.done =>
       /\ ~load_result.raised
       /\ load_result.docs =
             ExpectedDocs(SelectSeq(SelectSeq(file_paths, HasSupportedExt), NotBroken)
                          \o SelectSeq(links, NotBroken))

(***************************************************************************)
(* Claims about answer_with_rag (SpecRag).                                 *)
(***************************************************************************)
RetrievedText(i) == relevant_docs.docs[i].page_content

\* where the i-th text starts in the joined context, less one
RECURSIVE TextOffset(_)
TextOffset(i) ==
    IF i <= 1 THEN 0 ELSE TextOffset(i - 1) + Len(RetrievedText(i - 1)) + 1

\* C4: with the Gemini chat model answer_with_rag returns the retrieved texts in
\* retrieval order, each whole, with one blank-line separator between
\* neighbours and nothing else, and does not invoke the model; an empty
\* retrieval gives the empty string.
C4_RawContext ==
    (rag_result.done /\ llm_kind = "ChatGoogleGenerativeAI" /\ ~relevant_docs.raised) =>
       LET n == Len(relevant_docs.docs)
           value == rag_result.value
       IN  /\ ~rag_result.raised
           /\ ~rag_result.llm_invoked
           /\ Len(value) = IF n = 0 THEN 0 ELSE TextOffset(n) + Len(RetrievedText(n))
           /\ \A i \in 1..n :
                 SubSeq(value, TextOffset(i) + 1, TextOffset(i) + Len(RetrievedText(i)))
                    = RetrievedText(i)
           /\ \A i \in 1..(n - 1) :
                 value[TextOffset(i) + Len(RetrievedText(i)) + 1] = "\n\n"

\* three retrieved documents, the first and the last the same one, and an empty
\* text among them
C4_Witness ==
    /\ rag_result.done
    /\ llm_kind = "ChatGoogleGenerativeAI"
    /\ ~relevant_docs.raised
    /\ Len(relevant_docs.docs) = 3
    /\ relevant_docs.docs[1] = relevant_docs.docs[3]
    /\ relevant_docs.docs[2].page_content = <<>>
    /\ Len(rag_result.value) = 4

(***************************************************************************)
(* Claims about a session's index (SpecIndex).                             *)
(***************************************************************************)
SessionDir(s) == dirs[session_id[s]]

BuiltFrom(srcs) == [present |-> TRUE, docs |-> ExpectedDocs(srcs)]

\* C3: once a session has processed documents successfully, its retriever is
\* built from exactly the documents of the most recent successful Process
\* Documents action, and so is the index in its faiss_index directory: right
\* after the action, and for as long as the session's directory is there.
C3_IndexIsLatest ==
    \A s \in Tabs :
       (Live(s) /\ lastInputs[s].present) =>
          LET want == BuiltFrom(lastInputs[s].paths \o lastInputs[s].links)
          IN  /\ retriever[s] = want
              /\ SessionDir(s).exists => SessionDir(s).index = want
              /\ (lastOp.tab = s /\ lastOp.kind = "process" /\ lastOp.outcome = "success")
                    => SessionDir(s).exists

\* a successful action has just replaced an index built from other inputs
C3_Witness ==
    /\ lastOp.tab = ChatTab
    /\ lastOp.kind = "process"
    /\ lastOp.outcome = "success"
    /\ lastInputs[ChatTab].replaced
    /\ lastInputs[ChatTab].paths = <<>>
    /\ PathA \in SessionDir(ChatTab).files
    /\ SessionDir(ChatTab).index = retriever[ChatTab]

\* C8: the sweep removes a session's directory only when the session has had
\* no script run (page run, question, Process Documents) for longer than
\* MaxAgeHours.
C8_SweepSparesActive ==
    [][\A s \in Tabs :
          (/\ Live(s)
           /\ session_id'[s] = session_id[s]
           /\ SessionDir(s).exists
           /\ ~dirs'[session_id[s]].exists)
          => clock - lastInteraction[s] > MaxAgeHours]_vars

\* C10: when loading or embedding fails in a Process Documents action, the
\* action ends in an error, the session's retriever is the one it had before,
\* and the index in its directory is the one the handler found there.
C10_FailedProcessKeepsIndex ==
    [][\A s \in Tabs :
          (/\ lastOp'.tab = s
           /\ lastOp'.kind = "process"
           /\ (lastOp'.bad # {} \/ lastOp'.embedFails))
          => /\ lastOp'.outcome \in {"write_error", "no_input", "load_error", "embed_error"}
             /\ retriever'[s] = retriever[s]
             /\ dirs'[session_id[s]].index = Top(s).dirs[session_id[s]].index]_vars

\* the embedding of new documents has just failed in a session that has an
\* index, in memory and on disk
C10_Witness ==
    /\ lastOp.tab = ChatTab
    /\ lastOp.kind = "process"
    /\ lastOp.outcome = "embed_error"
    /\ lastInputs[ChatTab].present
    /\ retriever[ChatTab].present
    /\ SessionDir(ChatTab).index.present

PlainInputFor(stored) ==
    LET n == Len(stored)
        two == IF n >= 2 THEN <<stored[n - 1], stored[n]>> ELSE <<stored[n]>>
    IN  [i \in 1..Len(two) |->
            [type |-> IF two[i].role = "user" THEN "human" ELSE "ai",
             content |-> two[i].content]]

\* C5: when a question is asked and RAG is off, or the session has no
\* retriever, the one model call made is the plain one; when the RAG step
\* raises, the call made after it is the plain one.  The plain call's input is
\* the last two stored messages (the one there is, after Clear Chat), ending
\* with the question, and holds no retrieved context.
C5_FallbackIsPlain ==
    [][\A s \in Tabs :
          (lastOp'.tab = s /\ lastOp'.kind = "question") =>
             LET want == PlainInputFor(Append(messages[s], UserMsg(lastOp'.prompt)))
                 calls == lastOp'.calls
             IN  /\ (~use_rag'[s] \/ ~retriever'[s].present) =>
                       (lastOp'.path = "plain" /\ calls = <<want>>)
                 /\ lastOp'.path = "rag_fallback" =>
                       (calls # <<>> /\ calls[Len(calls)] = want)
                 /\ lastOp'.path # "rag" =>
                       /\ want[Len(want)] = [type |-> "human", content |-> lastOp'.prompt]
                       /\ \A i \in 1..Len(want) : RagHeader \notin Range(want[i].content)]_vars

\* the RAG stream failed, and the fallback answered from the greeting and the
\* question
C5_Witness ==
    /\ lastOp.kind = "question"
    /\ lastOp.path = "rag_fallback"
    /\ lastOp.outcome = "answered"
    /\ Len(lastOp.calls) = 2
    /\ Len(lastOp.calls[2]) = 2
    /\ lastOp.calls[2][1] = AIMessage(Greeting.content)

\* C6: the chunks a stream delivered before it failed are never stored as the
\* assistant message of that question, nor as the beginning of it.
C6_PartialNotStored ==
    (lastOp.kind = "question" /\ lastOp.partial # <<>> /\ lastOp.outcome = "answered")
       => ~IsPrefix(lastOp.partial, lastOp.stored)

\* C9: when check_message_limit clears the chat, what is left is exactly the
\* assistant's greeting.
C9_AutoClearKeepsGreeting ==
    (lastOp.kind = "question" /\ lastOp.cleared)
       => messages[lastOp.tab] = <<Greeting>>

\* C11: the stored conversation of a session never holds two user messages in
\* a row: every stored question is followed by an assistant message before the
\* next question is stored.
C11_NoConsecutiveUserMessages ==
    \A s \in Tabs :
       \A i \in 1..(Len(messages[s]) - 1) :
          ~(messages[s][i].role = "user" /\ messages[s][i + 1].role = "user")

=============================================================================
